---------------------------- MODULE Spec2Model ----------------------------
(***************************************************************************)
(* CANViewer: the CanUsbLogger class of src/canUsbLogger.js (lines 8-495). *)
(*                                                                         *)
(* Text is a sequence of one-character strings.  A JavaScript integer      *)
(* Number is a sign and a magnitude written as big-endian hexadecimal      *)
(* digits (no leading zero digit), so that 32-bit unsigned values, which   *)
(* an Int of the model checker cannot hold, are exact; NaN is its own      *)
(* value.  Small numbers (bytes, lengths, clock readings) are Nat.         *)
(***************************************************************************)
EXTENDS Integers, Sequences, FiniteSets, TLC

VARIABLES
    usbDevice,      \* this.usbDevice: null, or the device with its opened flag
    fullLog,        \* this.fullLog: sequence of references into heap
    heap,           \* the entry objects, by reference (fullLog and uniqueMap share them)
    startTimeMs,    \* this.startTimeMs: -1 is null
    uniqueMap,      \* this.uniqueMap: the keys in insertion order, each with its object
    now,            \* the last reading of the clock (performance.now / Date)
    sends,          \* sendCanMessage / sendCanMessageFromTemplate calls awaiting transferOut
    connPc,         \* where the connectDevice call in progress is: "idle" when none
    readers,        \* number of listenToDevice loops awaiting transferIn
    timers,         \* pending setTimeout callbacks, per template
    hist,           \* history: per logCanMessage call, the entry as built and its cause
    wire,           \* history: the buffers handed to transferOut, with their outcome
    arg,            \* the values the last call read: the result of transferIn, the fields
                    \* of a send, or the input of the function under study
    ret,            \* the result of the function under study
    export,         \* exportLog: its position, the content it built, how the call ended
    connectionStatus, \* the text of the #connect-status element
    sendIntervalId, \* this.sendIntervalId: 0 is undefined
    intervals,      \* the ids of the setInterval timers that are active
    keydown,        \* number of keydown listeners registered on window
    dispatch,       \* keydown listeners still to be called for the key being pressed
    spaceBox        \* the checked state of the spacebar checkbox (event.target.checked)

\* what the periodic-send selector and the spacebar checkbox act on
inputVars == <<sendIntervalId, intervals, keydown, dispatch, spaceBox>>

uiVars == <<connectionStatus, inputVars>>

vars == <<usbDevice, fullLog, heap, startTimeMs, uniqueMap, now, sends, connPc, readers,
          timers, hist, wire, arg, ret, export, uiVars>>

mainVars == <<usbDevice, fullLog, heap, startTimeMs, uniqueMap, now, sends, connPc, readers,
              timers, hist, wire, export, uiVars>>

logVars == <<fullLog, heap, startTimeMs, uniqueMap, now, hist>>

-----------------------------------------------------------------------------
(* Text *)

Digits16 == <<"0", "1", "2", "3", "4", "5", "6", "7", "8", "9", "a", "b", "c", "d", "e", "f">>

UpperOf == [c \in {"a", "b", "c", "d", "e", "f", "x", "z"} |->
              CASE c = "a" -> "A" [] c = "b" -> "B" [] c = "c" -> "C" [] c = "d" -> "D"
                [] c = "e" -> "E" [] c = "f" -> "F" [] c = "x" -> "X" [] c = "z" -> "Z"]

\* String.prototype.toUpperCase
toUpperCase(s) == [i \in 1..Len(s) |-> IF s[i] \in DOMAIN UpperOf THEN UpperOf[s[i]] ELSE s[i]]

UpperDigits16 == toUpperCase(Digits16)

HexValues == [c \in {Digits16[v] : v \in 1..16} \cup {UpperDigits16[v] : v \in 1..16} |->
                (CHOOSE v \in 1..16 : Digits16[v] = c \/ UpperDigits16[v] = c) - 1]

\* the value of a hexadecimal digit character, -1 for any other character
HexVal(c) == IF c \in DOMAIN HexValues THEN HexValues[c] ELSE -1

IsSpace(c) == c = " "

RECURSIVE DropWhileSpace(_)
DropWhileSpace(s) ==
    IF s # <<>> /\ IsSpace(Head(s)) THEN DropWhileSpace(Tail(s)) ELSE s

RECURSIVE DropTrailingSpace(_)
DropTrailingSpace(s) ==
    IF s # <<>> /\ IsSpace(s[Len(s)]) THEN DropTrailingSpace(SubSeq(s, 1, Len(s) - 1)) ELSE s

\* String.prototype.trim
trim(s) == DropTrailingSpace(DropWhileSpace(s))

\* String.prototype.padStart(width, "0")
RECURSIVE padStart(_, _)
padStart(s, width) == IF Len(s) >= width THEN s ELSE padStart(<<"0">> \o s, width)

\* Array.prototype.join(" ") on an array of texts (halving keeps the recursion shallow)
RECURSIVE join(_)
join(parts) ==
    IF parts = <<>> THEN <<>>
    ELSE IF Len(parts) = 1 THEN parts[1]
    ELSE LET half == Len(parts) \div 2
         IN  join(SubSeq(parts, 1, half)) \o <<" ">> \o join(SubSeq(parts, half + 1, Len(parts)))

\* String.prototype.split(/\s+/): the maximal runs of non-space characters, with
\* an empty first (last) piece when the text starts (ends) with a space, and the
\* single piece "" for the empty text
RECURSIVE SplitFrom(_, _)
SplitFrom(s, cur) ==
    IF s = <<>> THEN <<cur>>
    ELSE IF IsSpace(Head(s)) THEN <<cur>> \o SplitFrom(DropWhileSpace(s), <<>>)
    ELSE SplitFrom(Tail(s), Append(cur, Head(s)))

split(s) == SplitFrom(s, <<>>)

-----------------------------------------------------------------------------
(* Numbers *)

NaN == [nan |-> TRUE, neg |-> FALSE, mag |-> <<>>]

Num(neg, mag) == [nan |-> FALSE, neg |-> neg /\ mag # <<>>, mag |-> mag]

RECURSIVE StripZeros(_)
StripZeros(ds) == IF ds # <<>> /\ Head(ds) = 0 THEN StripZeros(Tail(ds)) ELSE ds

\* a Nat as a Number
RECURSIVE NatDigits(_)
NatDigits(n) == IF n = 0 THEN <<>> ELSE Append(NatDigits(n \div 16), n % 16)

FromNat(n) == Num(FALSE, NatDigits(n))

\* a small non-negative Number as a Nat
RECURSIVE DigitsValue(_)
DigitsValue(ds) == IF ds = <<>> THEN 0 ELSE 16 * DigitsValue(SubSeq(ds, 1, Len(ds) - 1)) + ds[Len(ds)]

\* the longest prefix of hexadecimal digit characters
RECURSIVE HexPrefix(_)
HexPrefix(s) ==
    IF s # <<>> /\ HexVal(Head(s)) >= 0 THEN <<HexVal(Head(s))>> \o HexPrefix(Tail(s)) ELSE <<>>

\* parseInt(text, 16): leading white space is skipped, then an optional sign, then
\* an optional 0x / 0X, then the longest run of hexadecimal digits; what follows
\* the run is ignored; NaN when the run is empty
parseInt16(text) ==
    LET s1     == DropWhileSpace(text)
        signed == s1 # <<>> /\ Head(s1) \in {"-", "+"}
        neg    == s1 # <<>> /\ Head(s1) = "-"
        s2     == IF signed THEN Tail(s1) ELSE s1
        s3     == IF Len(s2) >= 2 /\ s2[1] = "0" /\ s2[2] \in {"x", "X"}
                  THEN SubSeq(s2, 3, Len(s2)) ELSE s2
        run    == HexPrefix(s3)
    IN  IF run = <<>> THEN NaN ELSE Num(neg, StripZeros(run))

\* Number.prototype.toString(16)
toString16(n) ==
    IF n.nan THEN <<"N", "a", "N">>
    ELSE IF n.mag = <<>> THEN <<"0">>
    ELSE (IF n.neg THEN <<"-">> ELSE <<>>) \o [i \in 1..Len(n.mag) |-> Digits16[n.mag[i] + 1]]

\* the eight hexadecimal digits of a magnitude modulo 2^32
Low8(ds) ==
    LET padded == [i \in 1..8 |-> 0] \o ds
    IN  SubSeq(padded, Len(padded) - 7, Len(padded))

\* adding one to the digits up to position i, modulo 16^i: the trailing run of
\* 15s becomes 0s and the digit before it grows by one
Incr(ds, i) ==
    LET rest == {j \in 1..i : ds[j] # 15}
        stop == IF rest = {} THEN 0 ELSE CHOOSE j \in rest : \A k \in rest : k <= j
    IN  SubSeq(ds, 1, stop - 1)
            \o (IF stop = 0 THEN <<>> ELSE <<ds[stop] + 1>>)
            \o [j \in 1..(i - stop) |-> 0]
            \o SubSeq(ds, i + 1, Len(ds))

TwosComplement(ds) == Incr(SubSeq([i \in 1..8 |-> 15 - ds[i]], 1, 8), 8)

\* ToUint32 / ToInt32 bit pattern of a Number, as eight digits (NaN gives 0)
Bits32(n) ==
    IF n.nan THEN [i \in 1..8 |-> 0]
    ELSE IF n.neg THEN TwosComplement(Low8(n.mag))
    ELSE Low8(n.mag)

\* the Number a signed 32-bit pattern stands for (the result of & and |)
FromInt32(bits) ==
    IF bits[1] >= 8 THEN Num(TRUE, StripZeros(TwosComplement(bits)))
    ELSE Num(FALSE, StripZeros(bits))

\* the Number an unsigned 32-bit pattern stands for (DataView.getUint32)
FromUint32(bits) == Num(FALSE, StripZeros(bits))

RECURSIVE AndNibble(_, _, _)
AndNibble(x, y, k) ==
    IF k = 0 THEN 0
    ELSE 2 * AndNibble(x \div 2, y \div 2, k - 1) + (IF x % 2 = 1 /\ y % 2 = 1 THEN 1 ELSE 0)

RECURSIVE OrNibble(_, _, _)
OrNibble(x, y, k) ==
    IF k = 0 THEN 0
    ELSE 2 * OrNibble(x \div 2, y \div 2, k - 1) + (IF x % 2 = 1 \/ y % 2 = 1 THEN 1 ELSE 0)

\* a & b and a | b of JavaScript: on the 32-bit patterns, the result signed
BitAnd(a, b) == FromInt32([i \in 1..8 |-> AndNibble(Bits32(a)[i], Bits32(b)[i], 4)])

BitOr(a, b) == FromInt32([i \in 1..8 |-> OrNibble(Bits32(a)[i], Bits32(b)[i], 4)])

Mask11 == Num(FALSE, <<7, 15, 15>>)                       \* 0x7FF
Mask29 == Num(FALSE, <<1, 15, 15, 15, 15, 15, 15, 15>>)   \* 0x1FFFFFFF
Bit31  == Num(FALSE, <<8, 0, 0, 0, 0, 0, 0, 0>>)          \* 0x80000000

-----------------------------------------------------------------------------
(* formatCanId and parseHexString *)

\* FormatMask that keeps 29 bits whatever the type
FormatMaskWide(type) == Mask29

\* the mask formatCanId applies: every type but STD gets the 29-bit one
FormatMask(type) == IF type = "STD" THEN Mask11 ELSE Mask29

\* the width formatCanId pads to: every type but STD gets 8
FormatWidth(type) == IF type = "STD" THEN 3 ELSE 8

formatCanId(idHex, type) ==
    IF type = "SYS" THEN toUpperCase(idHex)
    ELSE LET parsed == parseInt16(idHex)
             raw    == BitAnd(IF parsed.nan THEN FromNat(0) ELSE parsed, FormatMask(type))
         IN  toUpperCase(padStart(toString16(raw), FormatWidth(type)))

\* the error parseHexString throws for a chunk
InvalidByteError(chunk) == <<"parseHexString: invalid byte \"">> \o chunk \o <<"\"">>

\* parseHexString: [ok |-> TRUE, bytes |-> the values] or [ok |-> FALSE, error |-> message];
\* map stops at the first chunk whose parseInt is NaN
parseHexString(input) ==
    LET chunks == split(trim(input))
        values == [i \in 1..Len(chunks) |-> parseInt16(chunks[i])]
        bad    == {i \in 1..Len(chunks) : values[i].nan}
    IN  IF bad # {}
        THEN [ok |-> FALSE, bytes |-> <<>>,
              error |-> InvalidByteError(chunks[CHOOSE i \in bad : \A j \in bad : i <= j])]
        ELSE [ok |-> TRUE, bytes |-> values, error |-> <<>>]

-----------------------------------------------------------------------------
(* The wire format: the send paths' encoding and listenToDevice's parse *)

Min(a, b) == IF a <= b THEN a ELSE b

\* BytesLE with the most significant byte first (littleEndian left out)
BytesBE(bits) == [i \in 1..4 |-> 16 * bits[2 * i - 1] + bits[2 * i]]

\* the four bytes of a 32-bit pattern, least significant first (littleEndian = true)
BytesLE(bits) == [i \in 1..4 |-> 16 * bits[9 - 2 * i] + bits[10 - 2 * i]]

\* the 32-bit pattern of four bytes read least significant first
BitsOfLE(b) == [i \in 1..8 |-> IF i % 2 = 1 THEN b[4 - (i \div 2)] \div 16
                                               ELSE b[5 - (i \div 2)] % 16]

\* DataView.setUint8 of a Number: its low eight bits
ToUint8(n) == 16 * Bits32(n)[7] + Bits32(n)[8]

\* two uppercase hexadecimal digits (or more) of a Number
ByteText(n) == toUpperCase(padStart(toString16(n), 2))

\* the id the send paths put on the wire: parseInt, 0 for NaN, then the mask and,
\* for every type but STD, bit 31
MaskRawId(parsed, type) ==
    LET rawId == IF parsed.nan THEN FromNat(0) ELSE parsed
    IN  IF type = "STD" THEN BitAnd(rawId, Mask11)
        ELSE BitOr(BitAnd(rawId, Mask29), Bit31)

\* the buffer of 5 + dataBytes.length bytes the send paths hand to transferOut
BuildBuffer(rawId, dataBytes) ==
    BytesLE(Bits32(rawId)) \o <<Len(dataBytes) % 256>>
        \o [i \in 1..Len(dataBytes) |-> ToUint8(dataBytes[i])]

\* ParseReport that takes every byte after the header, whatever dlc declares
ParseReportWholeTail(report) ==
    LET raw == FromUint32(BitsOfLE(SubSeq(report, 1, 4)))
    IN  [idHex     |-> padStart(toString16(raw), 8),
         type      |-> IF Bits32(raw)[1] >= 8 THEN "EXT" ELSE "STD",
         dlc       |-> report[5],
         dataBytes |-> [i \in 1..(Len(report) - 5) |-> ByteText(FromNat(report[5 + i]))]]

\* listenToDevice's parse of a report of at least 5 bytes: the arguments it
\* passes to logCanMessage
ParseReport(report) ==
    LET raw   == FromUint32(BitsOfLE(SubSeq(report, 1, 4)))
        dlc   == report[5]
        count == Min(dlc, Len(report) - 5)
    IN  [idHex     |-> padStart(toString16(raw), 8),
         type      |-> IF Bits32(raw)[1] >= 8 THEN "EXT" ELSE "STD",
         dlc       |-> dlc,
         dataBytes |-> [i \in 1..count |-> ByteText(FromNat(report[5 + i]))]]

-----------------------------------------------------------------------------
(* Bounds of the model and the inputs it draws *)

MaxLog == 3          \* logCanMessage calls in a run
MaxTime == 1         \* the clock stops advancing at this reading
MaxReaders == 1      \* listenToDevice loops started in a run
MaxTimers == 1       \* pending timeouts per template

\* the template rows modelled (the table has UNIQUE_TABLE_ROWS of them)
TemplateRows == {1}

\* reports the device delivers: id 0x123 with two data bytes, the same id with
\* one data byte, and the extended id 0x123 with no data
Reports == { <<35, 1, 0, 0, 2, 17, 34>>, <<35, 1, 0, 0, 1, 171>>, <<35, 1, 0, 128, 0>> }

\* a report too short to hold a frame
ShortReports == { <<35, 1, 0, 0>> }

\* result.status of a transferIn: ok, or one of the others of WebUSB
TransferStatuses == {"ok", "stall"}

\* what the user types into #can-id / a template's ID input
IdInputs == { <<"z", "z">>, <<"1", "z">> }

\* what the user types into #can-data / a template's data input
DataInputs == { <<"1", "1", " ", "2", "2">>, <<"z", "z">> }

IdTypes == {"STD", "EXT", "SYS"}

\* what a template row holds when one of its sends starts.  The rows are this.sendTemplates
\* (lines 36-39: id '00000000', type 'STD', data '', interval 100) as the input
\* handlers of the row (lines 185, 199, 209, 220) have left them; these handlers can
\* run between any two steps, so a row's content is drawn when it is read
TemplateContents ==
    { [id |-> <<"0", "0", "0", "0", "0", "0", "0", "0">>, type |-> t, data |-> d, interval |-> 100] :
        t \in {"STD"}, d \in { <<>>, <<"1", "1", " ", "2", "2">> } }

\* err.message of a rejected WebUSB call
ErrorMessages == { <<"NetworkError">> }

\* a || b on texts: the empty text is falsy
OrElse(a, b) == IF a = <<>> THEN b ELSE a

\* a reading of the clock: it never goes back, and advances by at most one unit
\* of the model between two consecutive readings
ClockAfter(t) == {u \in t..(t + 1) : u <= MaxTime}

-----------------------------------------------------------------------------
(* logCanMessage *)

\* the entry object logCanMessage builds (count 0: no count property yet)
NewEntry(timestamp, offset, idHex, type, dlc, dataBytes) ==
    [timestamp |-> timestamp, offset |-> offset, id |-> formatCanId(idHex, type),
     type |-> type, dlc |-> dlc, data |-> join(dataBytes), count |-> 0]

\* `${entry.id}|${entry.type}`
KeyOf(entry) == entry.id \o <<"|", entry.type>>

MapHas(map, key) == \E i \in 1..Len(map) : map[i].key = key

MapGet(map, key) == map[CHOOSE i \in 1..Len(map) : map[i].key = key].ref

\* this.startTimeMs after line 245
Anchor(start, log, reading) == IF Len(log) = 0 THEN reading ELSE start

\* PushLog that keeps the two most recent entries only
PushLogCapped(log, ref) ==
    IF Len(log) >= 2 THEN Append(Tail(log), ref) ELSE Append(log, ref)

\* this.fullLog.push(entry)
PushLog(log, ref) == Append(log, ref)

\* UniqueHeap that leaves the count of a known key as it is
UniqueHeapKeepsCount(objs, map, ref) ==
    LET entry == objs[ref]
        key   == KeyOf(entry)
    IN  IF MapHas(map, key)
        THEN [objs EXCEPT ![MapGet(map, key)] =
                 [@ EXCEPT !.timestamp = entry.timestamp, !.dlc = entry.dlc,
                           !.data = entry.data]]
        ELSE [objs EXCEPT ![ref].count = 1]

\* lines 258-269 on the heap: the object under the key is updated in place, or the
\* new object gets count 1; ref is the new entry's object, already allocated
UniqueHeap(objs, map, ref) ==
    LET entry == objs[ref]
        key   == KeyOf(entry)
    IN  IF MapHas(map, key)
        THEN [objs EXCEPT ![MapGet(map, key)] =
                 [@ EXCEPT !.count = @ + 1, !.timestamp = entry.timestamp,
                           !.dlc = entry.dlc, !.data = entry.data]]
        ELSE [objs EXCEPT ![ref].count = 1]

\* lines 258-269 on the map: a new key goes to the end of the insertion order
UniqueKeys(objs, map, ref) ==
    IF MapHas(map, KeyOf(objs[ref])) THEN map
    ELSE Append(map, [key |-> KeyOf(objs[ref]), ref |-> ref])

\* logCanMessage(idHex, type, dlc, dataBytes); cause is recorded in the history only.
\* r1 is the reading of line 245 (taken for the first entry only), r2 the reading of
\* line 246; getFormattedTimestamp's wall clock is read in the same instant as r2, and
\* offset is kept in the clock's unit (the code divides by 1000)
logCanMessage(idHex, type, dlc, dataBytes, cause) ==
    LET built == NewEntry(0, 0, idHex, type, dlc, dataBytes)
        ref   == Len(heap) + 1
    IN  \E r1 \in (IF Len(fullLog) = 0 THEN ClockAfter(now) ELSE {now}) :
        \E r2 \in ClockAfter(r1) :
            LET start == Anchor(startTimeMs, fullLog, r1)
                entry == [built EXCEPT !.timestamp = r2, !.offset = r2 - start]
                objs  == Append(heap, entry)
            IN  /\ startTimeMs' = start
                /\ fullLog' = PushLog(fullLog, ref)
                /\ heap' = UniqueHeap(objs, uniqueMap, ref)
                /\ uniqueMap' = UniqueKeys(objs, uniqueMap, ref)
                /\ now' = r2
                /\ hist' = Append(hist, [entry |-> entry, cause |-> cause])

\* a logCanMessage call may still be made within the bound
CanLog == Len(hist) + Cardinality(sends) < MaxLog

\* ClearedState that leaves the aggregate as it is
ClearedNothing(log, map, start) == [fullLog |-> log, uniqueMap |-> map, startTimeMs |-> start]

\* ClearedState that empties the log and forgets the anchor as well
ClearedEverything(log, map, start) == [fullLog |-> <<>>, uniqueMap |-> <<>>, startTimeMs |-> -1]

\* the clear-unique button's handler (lines 75-78)
ClearedState(log, map, start) == [fullLog |-> log, uniqueMap |-> <<>>, startTimeMs |-> start]

ClearUnique ==
    /\ LET after == ClearedState(fullLog, uniqueMap, startTimeMs)
       IN  /\ fullLog' = after.fullLog
           /\ uniqueMap' = after.uniqueMap
           /\ startTimeMs' = after.startTimeMs
    /\ UNCHANGED <<usbDevice, heap, now, sends, connPc, readers, timers,
                   hist, wire, arg, ret, export, uiVars>>

-----------------------------------------------------------------------------
(* connectDevice and listenToDevice *)

null == [present |-> FALSE, opened |-> FALSE]

Cause(kind, w) == [kind |-> kind, w |-> w]

\* a rejected await inside connectDevice: the catch block logs a SYS entry
ConnectFailed ==
    /\ \E msg \in ErrorMessages :
           logCanMessage(<<"-", "-", "-", "-">>, "SYS", 0,
                         <<OrElse(msg, <<"Connection Error">>)>>, Cause("connect", 0))
    /\ connPc' = "idle"

\* the Connect button: requestDevice resolves with the device the user picked
\* (this.usbDevice is assigned), or rejects
ConnectRequest ==
    /\ connPc = "idle"
    /\ \/ /\ usbDevice' = IF usbDevice = null THEN [present |-> TRUE, opened |-> FALSE] ELSE usbDevice
          /\ connPc' = "open"
          /\ UNCHANGED logVars
       \/ /\ CanLog
          /\ ConnectFailed
          /\ UNCHANGED usbDevice
    /\ UNCHANGED <<sends, readers, timers, wire, arg, ret, export, uiVars>>

\* usbDevice.open() (and selectConfiguration) resolves or rejects
ConnectOpen ==
    /\ connPc = "open"
    /\ \/ /\ usbDevice' = [usbDevice EXCEPT !.opened = TRUE]
          /\ connPc' = "claim"
          /\ UNCHANGED logVars
       \/ /\ CanLog
          /\ ConnectFailed
          /\ UNCHANGED usbDevice
    /\ UNCHANGED <<sends, readers, timers, wire, arg, ret, export, uiVars>>

\* claimInterface resolves, and listenToDevice is called: its loop condition
\* holds and it awaits its first transferIn; or claimInterface rejects
ConnectClaimUpTo(loops) ==
    /\ connPc = "claim"
    /\ \/ /\ readers < loops
          /\ connectionStatus' = "Connected"
          /\ readers' = readers + 1
          /\ connPc' = "idle"
          /\ UNCHANGED logVars
       \/ /\ CanLog
          /\ ConnectFailed
          /\ UNCHANGED <<readers, connectionStatus>>
    /\ UNCHANGED <<usbDevice, sends, timers, wire, arg, ret, export, inputVars>>

\* the runs in which at most MaxReaders loops are started
ConnectClaim == ConnectClaimUpTo(MaxReaders)

MaxLoops == 2        \* listenToDevice loops started in a run with repeated connects

\* the runs in which Connect is clicked again while a loop is reading
ConnectClaimAgain == ConnectClaimUpTo(MaxLoops)

Listening == readers > 0 /\ usbDevice # null /\ usbDevice.opened

\* the result a transferIn promise resolves with
TransferResults ==
    { [fn |-> "transferIn", status |-> st, report |-> r] :
          st \in TransferStatuses, r \in Reports \cup ShortReports }

\* Accepted that does not look at the status
AcceptedAnyStatus(result) == Len(result.report) >= 5

\* the condition of line 300
Accepted(result) == result.status = "ok" /\ Len(result.report) >= 5

\* transferIn resolves with status ok and a report of at least 5 bytes; arg keeps
\* the result (the local `result` of the loop body)
ReadFrame ==
    /\ Listening /\ CanLog
    /\ \E result \in TransferResults :
           /\ Accepted(result)
           /\ arg' = result
           /\ LET a == ParseReport(result.report)
              IN  logCanMessage(a.idHex, a.type, a.dlc, a.dataBytes, Cause("rx", 0))
    /\ UNCHANGED <<usbDevice, sends, connPc, readers, timers, wire, ret, export, uiVars>>

\* transferIn resolves with another status or with fewer than 5 bytes: nothing
\* is logged and the loop awaits the next transfer
ReadIgnored ==
    /\ Listening
    /\ \E result \in TransferResults :
           /\ ~Accepted(result)
           /\ arg' = result
    /\ UNCHANGED <<mainVars, ret>>

\* err.message of a rejected transferIn: a text, or none
ReadErrorMessages == ErrorMessages \cup { <<>> }

\* AfterReadError for a loop that goes on to its next transfer
AfterReadErrorContinues(n) == n

\* the loops awaiting a transfer once the catch block of one of them has run: the
\* loop leaves by the break of line 316
AfterReadError(n) == n - 1

\* transferIn rejects: a SYS entry is logged and the loop ends; arg keeps the error
ReadError ==
    /\ Listening /\ CanLog
    /\ \E msg \in ReadErrorMessages :
           /\ arg' = [fn |-> "transferIn", status |-> "rejected", message |-> msg]
           /\ logCanMessage(<<"-", "-", "-", "-">>, "SYS", 0, <<OrElse(msg, <<"Read Error">>)>>,
                            Cause("read", 0))
    /\ readers' = AfterReadError(readers)
    /\ UNCHANGED <<usbDevice, sends, connPc, timers, wire, ret, export, uiVars>>

-----------------------------------------------------------------------------
(* sendCanMessage and sendCanMessageFromTemplate *)

\* the arguments of the logCanMessage call after a transferOut that resolved
TxLogArgs(rawId, dataBytes) ==
    [idHex     |-> padStart(toString16(rawId), 8),
     type      |-> "TX",
     dlc       |-> Len(dataBytes),
     dataBytes |-> [i \in 1..Len(dataBytes) |-> ByteText(dataBytes[i])]]

\* the arguments of the logCanMessage call of a catch block
SysLogArgs(message) ==
    [idHex |-> <<"-", "-", "-", "-">>, type |-> "SYS", dlc |-> 0, dataBytes |-> <<message>>]

\* AfterTransferOut that logs the frame whether or not the write resolved
AfterTransferOutAlwaysTx(resolved, rawId, dataBytes, message) == TxLogArgs(rawId, dataBytes)

\* what the try / catch around transferOut logs (lines 356-367 and 477-488)
AfterTransferOut(resolved, rawId, dataBytes, message) ==
    IF resolved THEN TxLogArgs(rawId, dataBytes) ELSE SysLogArgs(message)

\* the part of both send functions from the id parse to the transferOut call;
\* tpl is 0 for sendCanMessage, the template's row for sendCanMessageFromTemplate;
\* arg keeps the values the call read
SendBody(idInput, type, dataInput, tpl) ==
    LET rawId  == MaskRawId(parseInt16(idInput), type)
        parsed == parseHexString(dataInput)
        w      == Len(wire) + 1
    IN  /\ arg' = [fn |-> "send", idInput |-> idInput, type |-> type,
                   dataInput |-> dataInput, tpl |-> tpl]
        /\ IF ~parsed.ok
           THEN /\ LET a == SysLogArgs(parsed.error)
                   IN  logCanMessage(a.idHex, a.type, a.dlc, a.dataBytes, Cause("parse", 0))
                /\ UNCHANGED <<sends, wire>>
           ELSE /\ wire' = Append(wire, [buffer |-> BuildBuffer(rawId, parsed.bytes),
                                         outcome |-> "pending"])
                /\ sends' = sends \cup {[w |-> w, rawId |-> rawId, dataBytes |-> parsed.bytes,
                                         tpl |-> tpl]}
                /\ UNCHANGED logVars

\* NoDevice that lets every send through
NoDeviceNever(dev) == FALSE

\* !this.usbDevice (lines 323 and 445)
NoDevice(dev) == dev = null

\* the early return of a send function: arg keeps that the call was made
SendSkipped(tpl) ==
    /\ arg' = [fn |-> "nodevice", tpl |-> tpl]
    /\ UNCHANGED <<logVars, sends, wire>>

\* a call of sendCanMessage, up to its await
SendCanMessageCall ==
    IF NoDevice(usbDevice)
    THEN SendSkipped(0)
    ELSE /\ CanLog
         /\ \E idInput \in IdInputs, type \in IdTypes, dataInput \in DataInputs :
                SendBody(idInput, type, dataInput, 0)

\* sendCanMessage called on its own
SendCanMessage ==
    /\ SendCanMessageCall
    /\ UNCHANGED <<usbDevice, connPc, readers, timers, ret, export, uiVars>>

\* sendCanMessageFromTemplate(tpl), up to its await
TemplateSend(k) ==
    IF NoDevice(usbDevice)
    THEN SendSkipped(k)
    ELSE /\ CanLog
         /\ \E tpl \in TemplateContents : SendBody(tpl.id, tpl.type, tpl.data, k)

\* send calls of template k that will still set a timeout, and timeouts pending
Chains(k) == timers[k] + Cardinality({s \in sends : s.tpl = k})

\* the Send Now button of row k, while fewer than `chains` chains of sends and
\* timeouts of that row are under way
SendNowUpTo(chains) ==
    /\ \E k \in TemplateRows : Chains(k) < chains /\ TemplateSend(k)
    /\ UNCHANGED <<usbDevice, connPc, readers, timers, ret, export, uiVars>>

\* the runs in which Send Now is clicked while no chain of the row is under way
SendNow == SendNowUpTo(MaxTimers)

MaxChains == 2       \* chains of sends and timeouts per template with repeated clicks

\* the runs in which Send Now is clicked again while a chain of the row is under way
SendNowAgain == SendNowUpTo(MaxChains)

\* a timeout set by sendCanMessageFromTemplate fires
TimerFires ==
    /\ \E k \in TemplateRows :
           /\ timers[k] > 0
           /\ timers' = [timers EXCEPT ![k] = @ - 1]
           /\ TemplateSend(k)
    /\ UNCHANGED <<usbDevice, connPc, readers, ret, export, uiVars>>

\* Rescheduled that sets the timeout after a write that resolved only
RescheduledIfWritten(tm, tpl, resolved) ==
    IF tpl = 0 \/ ~resolved THEN tm ELSE [tm EXCEPT ![tpl] = @ + 1]

\* the pending timeouts once a send function has got past its try / catch around
\* transferOut: sendCanMessageFromTemplate sets one for its template (line 491),
\* sendCanMessage (tpl 0) sets none
Rescheduled(tm, tpl, resolved) ==
    IF tpl = 0 THEN tm ELSE [tm EXCEPT ![tpl] = @ + 1]

\* transferOut settles and the send function resumes: it logs, and the template
\* path then sets its timeout
SendSettles ==
    \E s \in sends, resolved \in BOOLEAN, msg \in ErrorMessages :
        /\ resolved => usbDevice.opened
        /\ wire' = [wire EXCEPT ![s.w].outcome = IF resolved THEN "ok" ELSE "error"]
        /\ LET message == IF s.tpl = 0 THEN OrElse(msg, <<"Send Error">>) ELSE msg
               a       == AfterTransferOut(resolved, s.rawId, s.dataBytes, message)
           IN  logCanMessage(a.idHex, a.type, a.dlc, a.dataBytes,
                             Cause(IF resolved THEN "tx" ELSE "txerror", s.w))
        /\ sends' = sends \ {s}
        /\ timers' = Rescheduled(timers, s.tpl, resolved)
        /\ UNCHANGED <<usbDevice, connPc, readers, arg, ret, export, uiVars>>

-----------------------------------------------------------------------------
(* exportLog *)

\* a natural number in decimal
RECURSIVE DecText(_)
DecText(n) == IF n < 10 THEN <<Digits16[n + 1]>> ELSE DecText(n \div 10) \o <<Digits16[(n % 10) + 1]>>

\* a field of a CSV row: wrapped in double quotes, embedded quotes doubled
RECURSIVE DoubleQuotes(_)
DoubleQuotes(t) ==
    IF t = <<>> THEN <<>>
    ELSE (IF Head(t) = "\"" THEN <<"\"", "\"">> ELSE <<Head(t)>>) \o DoubleQuotes(Tail(t))

CsvField(t) == <<"\"">> \o DoubleQuotes(t) \o <<"\"">>

CsvHeader == <<"Timestamp", "Offset", "ID", "Type", "DLC", "Data">>

\* the row of an entry; the offset is written with 6 decimals
CsvRow(e) ==
    << CsvField(DecText(e.timestamp)), CsvField(DecText(e.offset) \o <<".000000">>),
       CsvField(e.id), CsvField(<<e.type>>), CsvField(DecText(e.dlc)), CsvField(e.data) >>

\* generateCsv(entries): the header row, then one row per entry in the order given
generateCsv(entries) == <<CsvHeader>> \o [i \in 1..Len(entries) |-> CsvRow(entries[i])]

\* LogEntries in the order of the log table: newest first
LogEntriesNewestFirst(log, objs) == [i \in 1..Len(log) |-> objs[log[Len(log) + 1 - i]]]

\* the entries an exporter reads through this.fullLog
LogEntries(log, objs) == [i \in 1..Len(log) |-> objs[log[i]]]

NoContent == [fn |-> "none"]

NoExport == [pc |-> "idle", content |-> NoContent, outcome |-> "none"]

\* lines 411-417 and 424: the generator called for the extension of the file name,
\* with the entries and the anchor it is given; the CSV text is kept with the call
Generate(ext, log, objs, start) ==
    IF ext = "trc" THEN [fn |-> "generateTrc", entries |-> LogEntries(log, objs), start |-> start]
    ELSE IF ext = "asc" THEN [fn |-> "generateAsc", entries |-> LogEntries(log, objs), start |-> start]
    ELSE [fn |-> "generateCsv", entries |-> LogEntries(log, objs), start |-> -1,
          text |-> generateCsv(LogEntries(log, objs))]

FileExtensions == {"csv", "trc", "asc"}

\* ExportReport that logs a line for the awaits that resolved too
ExportReportAlways(ok, message) == <<SysLogArgs(message)>>

\* the logCanMessage calls exportLog makes once an await has settled (lines 434-437)
ExportReport(ok, message) == IF ok THEN <<>> ELSE <<SysLogArgs(message)>>

\* what follows an await of exportLog that settled: nothing is logged, or the catch
\* block logs and the function ends
ExportSettled(ok, message, next) ==
    LET calls == ExportReport(ok, message)
    IN  /\ IF calls = <<>>
           THEN UNCHANGED logVars
           ELSE /\ CanLog
                /\ logCanMessage(calls[1].idHex, calls[1].type, calls[1].dlc, calls[1].dataBytes,
                                 Cause("export", 0))
        /\ export' = IF ok THEN next ELSE [export EXCEPT !.pc = "idle", !.outcome = "failed"]

\* the Export button: with showSaveFilePicker the function awaits the picker; without
\* it the CSV is generated and downloaded at once
ExportStart ==
    /\ export.pc = "idle"
    /\ \/ export' = [pc |-> "picker", content |-> NoContent, outcome |-> "none"]
       \/ export' = [pc |-> "idle", content |-> Generate("csv", fullLog, heap, startTimeMs),
                     outcome |-> "downloaded"]
    /\ UNCHANGED <<usbDevice, logVars, sends, connPc, readers, timers, wire, arg, ret, uiVars>>

\* the picker settles: with a handle the content is generated and createWritable awaited
ExportPicked ==
    /\ export.pc = "picker"
    /\ \E ok \in BOOLEAN, ext \in FileExtensions, msg \in ErrorMessages :
           ExportSettled(ok, msg, [export EXCEPT !.pc = "writable",
                                      !.content = Generate(ext, fullLog, heap, startTimeMs)])
    /\ UNCHANGED <<usbDevice, sends, connPc, readers, timers, wire, arg, ret, uiVars>>

\* createWritable settles, then write(content), then close()
ExportWritable ==
    /\ export.pc = "writable"
    /\ \E ok \in BOOLEAN, msg \in ErrorMessages :
           ExportSettled(ok, msg, [export EXCEPT !.pc = "write"])
    /\ UNCHANGED <<usbDevice, sends, connPc, readers, timers, wire, arg, ret, uiVars>>

ExportWritten ==
    /\ export.pc = "write"
    /\ \E ok \in BOOLEAN, msg \in ErrorMessages :
           ExportSettled(ok, msg, [export EXCEPT !.pc = "close"])
    /\ UNCHANGED <<usbDevice, sends, connPc, readers, timers, wire, arg, ret, uiVars>>

ExportClosed ==
    /\ export.pc = "close"
    /\ \E ok \in BOOLEAN, msg \in ErrorMessages :
           ExportSettled(ok, msg, [export EXCEPT !.pc = "idle", !.outcome = "written"])
    /\ UNCHANGED <<usbDevice, sends, connPc, readers, timers, wire, arg, ret, uiVars>>

-----------------------------------------------------------------------------
(* handleIntervalChange, handleSpacebarToggle and spacebarHandler *)

MaxChanges == 3      \* setInterval calls in a run
MaxToggles == 2      \* keydown listeners added in a run

\* Number(event.target.value) for the values a selector can hold: a negative
\* number, zero, two periods, and a text that is no number
IntervalValues ==
    { [nan |-> FALSE, n |-> -1], [nan |-> FALSE, n |-> 0], [nan |-> FALSE, n |-> 100],
      [nan |-> FALSE, n |-> 500], [nan |-> TRUE, n |-> 0] }

\* ms > 0
Positive(ms) == ~ms.nan /\ ms.n > 0

\* ClearedInterval that clears nothing
ClearedIntervalNone(ids, id) == ids

\* line 372: the timer this.sendIntervalId names is cleared, if the field is set
ClearedInterval(ids, id) == IF id # 0 THEN ids \ {id} ELSE ids

\* handleIntervalChange(event): setInterval returns an id no timer had before; arg
\* keeps the value the handler read
HandleIntervalChange ==
    /\ \E ms \in IntervalValues :
           /\ arg' = [fn |-> "handleIntervalChange", ms |-> ms]
           /\ IF Positive(ms)
              THEN /\ sendIntervalId < MaxChanges
                   /\ sendIntervalId' = sendIntervalId + 1
                   /\ intervals' = ClearedInterval(intervals, sendIntervalId)
                                       \cup {sendIntervalId + 1}
              ELSE /\ sendIntervalId' = sendIntervalId
                   /\ intervals' = ClearedInterval(intervals, sendIntervalId)
    /\ UNCHANGED <<usbDevice, logVars, sends, connPc, readers, timers, wire, ret, export,
                   connectionStatus, keydown, dispatch, spaceBox>>

\* an interval timer fires: its callback calls sendCanMessage (line 375)
IntervalFires ==
    /\ intervals # {}
    /\ SendCanMessageCall
    /\ UNCHANGED <<usbDevice, connPc, readers, timers, ret, export, uiVars>>

\* AfterToggle that adds and removes one and the same listener
AfterToggleSameListener(n, checked) == IF checked THEN 1 ELSE 0

\* the keydown listeners on window after handleSpacebarToggle (lines 381-385): each
\* call passes a new arrow function, so addEventListener adds one more listener and
\* removeEventListener finds none to remove
AfterToggle(n, checked) == IF checked THEN n + 1 ELSE n

\* handleSpacebarToggle(event)
HandleSpacebarToggle ==
    /\ \E checked \in BOOLEAN :
           /\ checked => keydown < MaxToggles
           /\ spaceBox' = checked
           /\ keydown' = AfterToggle(keydown, checked)
           /\ arg' = [fn |-> "handleSpacebarToggle", checked |-> checked]
    /\ UNCHANGED <<usbDevice, logVars, sends, connPc, readers, timers, wire, ret, export,
                   connectionStatus, sendIntervalId, intervals, dispatch>>

KeyCodes == {"Space", "KeyA"}

\* a key is pressed: every keydown listener is called in turn, and spacebarHandler
\* goes on to sendCanMessage for the Space key only (line 390)
Keydown ==
    /\ dispatch = 0
    /\ \E code \in KeyCodes :
           /\ arg' = [fn |-> "keydown", code |-> code]
           /\ dispatch' = IF code = "Space" THEN keydown ELSE 0
    /\ UNCHANGED <<usbDevice, logVars, sends, connPc, readers, timers, wire, ret, export,
                   connectionStatus, sendIntervalId, intervals, keydown, spaceBox>>

\* the next listener of the key being pressed runs: spacebarHandler calls sendCanMessage
SpacebarHandler ==
    /\ dispatch > 0
    /\ dispatch' = dispatch - 1
    /\ SendCanMessageCall
    /\ UNCHANGED <<usbDevice, connPc, readers, timers, ret, export,
                   connectionStatus, sendIntervalId, intervals, keydown, spaceBox>>

-----------------------------------------------------------------------------
(* The logger *)

NoCall == [fn |-> "none"]

\* the fields the constructor sets (lines 31-41), no timer pending, nothing in flight
Constructed ==
    /\ usbDevice = null
    /\ fullLog = <<>>
    /\ heap = <<>>
    /\ startTimeMs = -1
    /\ uniqueMap = <<>>
    /\ sends = {}
    /\ connPc = "idle"
    /\ readers = 0
    /\ timers = [k \in TemplateRows |-> 0]
    /\ hist = <<>>
    /\ wire = <<>>
    /\ export = NoExport
    /\ connectionStatus = "Not Connected"
    /\ sendIntervalId = 0
    /\ intervals = {}
    /\ keydown = 0
    /\ dispatch = 0
    /\ spaceBox = FALSE

Init ==
    /\ Constructed
    /\ now = 0
    /\ arg = NoCall
    /\ ret = NoCall

\* the listeners of one key press run one after the other, nothing in between
Next ==
    \/ /\ dispatch = 0
       /\ \/ ConnectRequest
          \/ ConnectOpen
          \/ ConnectClaim
          \/ ReadFrame
          \/ ReadIgnored
          \/ ReadError
          \/ SendCanMessage
          \/ SendNow
          \/ TimerFires
          \/ SendSettles
          \/ ClearUnique
          \/ ExportStart
          \/ ExportPicked
          \/ ExportWritable
          \/ ExportWritten
          \/ ExportClosed
          \/ HandleIntervalChange
          \/ IntervalFires
          \/ HandleSpacebarToggle
          \/ Keydown
    \/ SpacebarHandler

Spec == Init /\ [][Next]_vars

\* the logger while the user sends nothing: the log is fed by the read loop and by
\* the failures of connectDevice
NextRx ==
    \/ ConnectRequest
    \/ ConnectOpen
    \/ ConnectClaim
    \/ ReadFrame
    \/ ReadIgnored
    \/ ReadError
    \/ ClearUnique

SpecRx == Init /\ [][NextRx]_vars

\* the logger on a silent bus (no transferIn settles), with a clock too coarse to
\* advance during the run and the aggregate never cleared: the log is fed by the two
\* send paths and by the failures of connectDevice
InitTx ==
    /\ Constructed
    /\ now = MaxTime
    /\ arg = NoCall
    /\ ret = NoCall

NextTx ==
    \/ ConnectRequest
    \/ ConnectOpen
    \/ ConnectClaim
    \/ SendCanMessage
    \/ SendNow
    \/ TimerFires
    \/ SendSettles

SpecTx == InitTx /\ [][NextTx]_vars

\* the logger while the user exports, with a clock too coarse to advance during the
\* run: the log is fed by the read loop and by the failures of connectDevice and of
\* exportLog
NextExport ==
    \/ ConnectRequest
    \/ ConnectOpen
    \/ ConnectClaim
    \/ ReadFrame
    \/ ExportStart
    \/ ExportPicked
    \/ ExportWritable
    \/ ExportWritten
    \/ ExportClosed

SpecExport == InitTx /\ [][NextExport]_vars

\* the logger while the user clicks Connect more than once, with a clock too coarse
\* to advance during the run
NextReconnect ==
    \/ ConnectRequest
    \/ ConnectOpen
    \/ ConnectClaimAgain
    \/ ReadFrame
    \/ ReadIgnored
    \/ ReadError

SpecReconnect == InitTx /\ [][NextReconnect]_vars

\* the logger on a silent bus while the user clicks Send Now more than once, with a
\* clock too coarse to advance during the run
NextResend ==
    \/ ConnectRequest
    \/ ConnectOpen
    \/ ConnectClaim
    \/ SendNowAgain
    \/ TimerFires
    \/ SendSettles

SpecResend == InitTx /\ [][NextResend]_vars

\* the logger on a silent bus while the user changes the period of the periodic send;
\* the writes stay pending
NextPeriodic ==
    \/ ConnectRequest
    \/ ConnectOpen
    \/ ConnectClaim
    \/ HandleIntervalChange
    \/ IntervalFires

SpecPeriodic == InitTx /\ [][NextPeriodic]_vars

\* the logger on a silent bus while the user ticks the spacebar checkbox and presses
\* keys; the writes stay pending
NextKeys ==
    \/ /\ dispatch = 0
       /\ \/ ConnectRequest
          \/ ConnectOpen
          \/ ConnectClaim
          \/ HandleSpacebarToggle
          \/ Keydown
    \/ SpacebarHandler

SpecKeys == InitTx /\ [][NextKeys]_vars

-----------------------------------------------------------------------------
(* The functions on their own: Init draws the input, the one step applies it *)

MaxTextLen == 3      \* length of the texts drawn character by character
MaxDataLen == 2      \* length of the byte sequences drawn byte by byte
U8Max == 255         \* the largest value DataView.setUint8 stores

RECURSIVE TextsOver(_, _)
TextsOver(chars, n) ==
    IF n = 0 THEN { <<>> }
    ELSE LET shorter == TextsOver(chars, n - 1)
         IN  shorter \cup { Append(t, c) : t \in {u \in shorter : Len(u) = n - 1}, c \in chars }

\* texts given to formatCanId: the three of the documentation and all short ones
FormatTexts ==
    TextsOver({"1", "7", "f", "F", "z"}, MaxTextLen)
        \cup { <<"7", "f", "f">>, <<"z", "z">>, <<"1", "f", "f", "f", "f", "f", "f", "f">> }

FormatInit ==
    /\ Constructed
    /\ now = 0
    /\ arg \in { [fn |-> "formatCanId", idHex |-> t, type |-> k] :
                    t \in FormatTexts, k \in {"STD", "EXT"} }
    /\ ret = NoCall

FormatCall ==
    /\ ret = NoCall
    /\ ret' = [fn |-> "formatCanId", text |-> formatCanId(arg.idHex, arg.type)]
    /\ UNCHANGED <<mainVars, arg>>

SpecFormat == FormatInit /\ [][FormatCall]_vars

\* texts given to parseHexString
ParseTexts ==
    TextsOver({"1", "a", "z", " "}, MaxTextLen + 1)
        \cup { <<"1", "1", " ", "2", "2", " ", "3", "3">>, <<"1", "1", " ", "z", "z">> }

ParseInit ==
    /\ Constructed
    /\ now = 0
    /\ arg \in { [fn |-> "parseHexString", input |-> t] : t \in ParseTexts }
    /\ ret = NoCall

ParseCall ==
    /\ ret = NoCall
    /\ ret' = [fn |-> "parseHexString", result |-> parseHexString(arg.input)]
    /\ UNCHANGED <<mainVars, arg>>

SpecParse == ParseInit /\ [][ParseCall]_vars

\* ids (as Nat, all below 2^31), kinds and data given to the send paths' encoding
CodecIds == {0, 1, 291, 2047, 2048, 536870911, 536870912, 2147483647}

\* n bytes that differ from their neighbours
Ramp(n) == [i \in 1..n |-> (7 * i) % 256]

RECURSIVE BytesOver(_, _)
BytesOver(values, n) ==
    IF n = 0 THEN { <<>> }
    ELSE LET shorter == BytesOver(values, n - 1)
         IN  shorter \cup { Append(t, b) : t \in {u \in shorter : Len(u) = n - 1}, b \in values }

CodecData == BytesOver({0, 10, 171, 255}, MaxDataLen) \cup { Ramp(8), Ramp(U8Max), Ramp(U8Max + 1) }

CodecInit ==
    /\ Constructed
    /\ now = 0
    /\ arg \in { [fn |-> "codec", id |-> n, kind |-> k, data |-> d] :
                    n \in CodecIds, k \in {"STD", "EXT"}, d \in CodecData }
    /\ ret = NoCall

\* the buffer of the send paths for the frame, then listenToDevice's parse of that
\* buffer and the entry logCanMessage builds from it
CodecCall ==
    /\ ret = NoCall
    /\ LET rawId  == MaskRawId(FromNat(arg.id), arg.kind)
           buffer == BuildBuffer(rawId, [i \in 1..Len(arg.data) |-> FromNat(arg.data[i])])
           a      == ParseReport(buffer)
       IN  ret' = [fn |-> "codec", buffer |-> buffer,
                   entry |-> NewEntry(0, 0, a.idHex, a.type, a.dlc, a.dataBytes)]
    /\ UNCHANGED <<mainVars, arg>>

SpecCodec == CodecInit /\ [][CodecCall]_vars

\* reports given to listenToDevice's parse: raw ids around every mask boundary
\* with an empty frame, and two ids with every declared length over short tails
DecodeIds ==
    { <<b0, b1, b2, b3>> : b0 \in {0, 35, 255}, b1 \in {0, 7, 8, 255}, b2 \in {0, 255},
                           b3 \in {0, 31, 32, 96, 128, 159, 255} }

DecodeReports ==
    { id \o <<0>> : id \in DecodeIds }
        \cup { id \o <<dlc>> \o tail :
                 id \in { <<35, 1, 0, 0>>, <<35, 1, 0, 128>> },
                 dlc \in {0, 1, 2, 8, U8Max},
                 tail \in BytesOver({17, 171}, MaxDataLen + 1) }

DecodeInit ==
    /\ Constructed
    /\ now = 0
    /\ arg \in { [fn |-> "decode", report |-> r] : r \in DecodeReports }
    /\ ret = NoCall

\* lines 301-311 on the report, and the entry logCanMessage builds from the result
DecodeCall ==
    /\ ret = NoCall
    /\ LET a == ParseReport(arg.report)
       IN  ret' = [fn |-> "decode", args |-> a,
                   entry |-> NewEntry(0, 0, a.idHex, a.type, a.dlc, a.dataBytes)]
    /\ UNCHANGED <<mainVars, arg>>

SpecDecode == DecodeInit /\ [][DecodeCall]_vars

-----------------------------------------------------------------------------
(* renderUnique *)

UNIQUE_TABLE_ROWS == 10

MaxKeys == 12        \* distinct (id, type) keys the device sends
MaxAppends == 13     \* frames received in a run of the unique-table model
MaxRepeats == 2      \* of which frames whose key is already in the map
MaxClears == 1       \* clicks on the clear-unique button

\* a row of six cells without text
PaddingRow == [i \in 1..6 |-> <<>>]

\* the cells of an aggregate entry's row, as textContent holds them (lines 154-157)
UniqueRow(e) ==
    << DecText(e.timestamp), e.id, <<e.type>>, DecText(e.dlc), e.data, DecText(e.count) >>

\* renderUnique that shows the last UNIQUE_TABLE_ROWS keys
renderUniqueLast(map, objs) ==
    LET shown == IF Len(map) < UNIQUE_TABLE_ROWS THEN Len(map) ELSE UNIQUE_TABLE_ROWS
        skip  == Len(map) - shown
    IN  [i \in 1..shown |-> UniqueRow(objs[map[skip + i].ref])]
            \o [i \in 1..(UNIQUE_TABLE_ROWS - shown) |-> PaddingRow]

\* the rows of the unique table after renderUnique (lines 149-169): the first
\* UNIQUE_TABLE_ROWS values of the map in insertion order, then padCount empty rows
renderUnique(map, objs) ==
    LET shown == IF Len(map) < UNIQUE_TABLE_ROWS THEN Len(map) ELSE UNIQUE_TABLE_ROWS
    IN  [i \in 1..shown |-> UniqueRow(objs[map[i].ref])]
            \o [i \in 1..(UNIQUE_TABLE_ROWS - shown) |-> PaddingRow]

\* the report of the frame with key number i: ids 1, 1, 2, 2, ... with the
\* extended flag set on every other one; a recurring frame carries one data byte
UniqueReport(i, recurs) ==
    <<(i + 1) \div 2, 0, 0, IF i % 2 = 1 THEN 128 ELSE 0>>
        \o (IF recurs THEN <<1, 171>> ELSE <<0>>)

\* what the run has done so far: frames whose key recurred, clicks on clear, and
\* the number of logCanMessage calls made before the last clear
NoUnique == [fn |-> "unique", repeats |-> 0, clears |-> 0, cleared |-> 0]

UniqueInit ==
    /\ Constructed
    /\ now = MaxTime
    /\ arg = NoUnique
    /\ ret = [fn |-> "renderUnique", rows |-> renderUnique(uniqueMap, heap)]

\* a frame arrives and is logged (lines 300-311), its key either the next new one
\* or one the map holds: the first or the latest; logCanMessage renders the table
\* last (line 272)
UniqueFrame ==
    /\ Len(hist) < MaxAppends
    /\ \E recurs \in BOOLEAN :
       \E i \in (IF recurs THEN {1, Len(uniqueMap)} ELSE {Len(uniqueMap) + 1}) :
           /\ i \in 1..MaxKeys
           /\ recurs => arg.repeats < MaxRepeats
           /\ LET a == ParseReport(UniqueReport(i, recurs))
              IN  logCanMessage(a.idHex, a.type, a.dlc, a.dataBytes, Cause("rx", 0))
           /\ arg' = [arg EXCEPT !.repeats = IF recurs THEN @ + 1 ELSE @]
    /\ ret' = [fn |-> "renderUnique", rows |-> renderUnique(uniqueMap', heap')]
    /\ UNCHANGED <<usbDevice, sends, connPc, readers, timers, wire, export, uiVars>>

\* the clear-unique button's handler with its rendering (lines 75-78)
UniqueClear ==
    /\ arg.clears < MaxClears
    /\ LET after == ClearedState(fullLog, uniqueMap, startTimeMs)
       IN  /\ fullLog' = after.fullLog
           /\ uniqueMap' = after.uniqueMap
           /\ startTimeMs' = after.startTimeMs
    /\ arg' = [arg EXCEPT !.clears = @ + 1, !.cleared = Len(hist)]
    /\ ret' = [fn |-> "renderUnique", rows |-> renderUnique(uniqueMap', heap)]
    /\ UNCHANGED <<usbDevice, heap, now, sends, connPc, readers, timers, hist, wire, export, uiVars>>

NextUnique == UniqueFrame \/ UniqueClear

SpecUnique == UniqueInit /\ [][NextUnique]_vars

-----------------------------------------------------------------------------
(* Properties *)

Range(f) == {f[i] : i \in DOMAIN f}

\* the i-th entry of the log
Entry(i) == heap[fullLog[i]]

\* the fields of a log entry
SixFields(e) == <<e.timestamp, e.offset, e.id, e.type, e.dlc, e.data>>

\* the aggregate: its entry objects in insertion order
AggOf(objs, map) == [i \in 1..Len(map) |-> objs[map[i].ref]]

PairKey(e) == <<e.id, e.type>>

\* C1: every log entry still has the timestamp, offset, id, type, dlc and data it
\* was appended with, whatever was appended or cleared since.
C1_EntriesNeverChange ==
    \A i \in 1..Len(fullLog) :
        i <= Len(hist) => SixFields(Entry(i)) = SixFields(hist[i].entry)

\* C2: a logCanMessage call with a key (id, type) the aggregate does not hold adds
\* the key at the end with count 1; with a key it holds, the key's timestamp, dlc
\* and data become the new entry's, its count grows by exactly 1, and the keys
\* keep their order.
C2_UpdateRule ==
    [][Len(hist') = Len(hist) + 1 =>
        LET e     == hist'[Len(hist')].entry
            old   == AggOf(heap, uniqueMap)
            new   == AggOf(heap', uniqueMap')
            found == {i \in 1..Len(old) : PairKey(old[i]) = PairKey(e)}
        IN  /\ \A i \in 1..Len(old) : i <= Len(new) /\ PairKey(new[i]) = PairKey(old[i])
            /\ IF found = {}
               THEN /\ Len(new) = Len(old) + 1
                    /\ PairKey(new[Len(new)]) = PairKey(e)
                    /\ new[Len(new)].count = 1
               ELSE /\ Len(new) = Len(old)
                    /\ \A i \in found :
                           /\ new[i].timestamp = e.timestamp
                           /\ new[i].dlc = e.dlc
                           /\ new[i].data = e.data
                           /\ new[i].count = old[i].count + 1
    ]_vars

\* keys A, B, A were appended: the aggregate is [A, B], A counted twice and
\* carrying the third append's data, which differs from the first's
C2_Witness ==
    /\ Len(fullLog) = 3 /\ Len(uniqueMap) = 2
    /\ PairKey(Entry(3)) = PairKey(Entry(1))
    /\ AggOf(heap, uniqueMap)[1].count = 2
    /\ AggOf(heap, uniqueMap)[1].data = hist[3].entry.data
    /\ hist[3].entry.data # hist[1].entry.data

\* C5: a step of the clear-unique handler leaves the aggregate without keys and
\* the log (its sequence and every entry object) and the anchor as they were.
C5_ClearFrame ==
    [][ClearUnique =>
        /\ uniqueMap' = <<>>
        /\ fullLog' = fullLog
        /\ heap' = heap
        /\ startTimeMs' = startTimeMs
    ]_vars

\* the aggregate was cleared after two appends
C5_Witness == uniqueMap = <<>> /\ Len(fullLog) >= 2 /\ startTimeMs >= 0

\* C6: the log holds one entry per logCanMessage call, in call order: the i-th
\* object created is the i-th element, so nothing was removed, reordered or dropped.
C6_AppendOnly ==
    /\ Len(heap) = Len(hist)
    /\ fullLog = [i \in 1..Len(hist) |-> i]

\* three calls were made, and the aggregate was cleared in between
C6_Witness == Len(hist) = 3 /\ Len(fullLog) = 3 /\ Len(uniqueMap) = 1

\* C7: the first entry has offset 0, and the offsets never decrease along the log.
C7_FirstOffsetZero ==
    Len(fullLog) > 0 =>
        /\ Entry(1).offset = 0
        /\ \A i, j \in 1..Len(fullLog) : i <= j => Entry(i).offset <= Entry(j).offset

\* the sends whose write has settled, and the entries logged for write w
Linked(w) == {i \in 1..Len(fullLog) : i <= Len(hist) /\ hist[i].cause.w = w}

\* C4: an entry of type TX is logged for a send exactly when its transferOut
\* resolved, and not before it settled; a transferOut that rejected leaves no TX
\* entry for the send and exactly one SYS entry (id "----", dlc 0).
C4_TxIffWritten ==
    /\ \A w \in 1..Len(wire) :
           CASE wire[w].outcome = "pending" -> Linked(w) = {}
             [] wire[w].outcome = "ok" ->
                    /\ Cardinality(Linked(w)) = 1
                    /\ \A i \in Linked(w) : Entry(i).type = "TX"
             [] wire[w].outcome = "error" ->
                    /\ Cardinality(Linked(w)) = 1
                    /\ \A i \in Linked(w) :
                           /\ Entry(i).type = "SYS"
                           /\ Entry(i).id = <<"-", "-", "-", "-">>
                           /\ Entry(i).dlc = 0
    /\ \A i \in 1..Len(fullLog) :
           Entry(i).type = "TX" =>
               /\ hist[i].cause.w \in 1..Len(wire)
               /\ wire[hist[i].cause.w].outcome = "ok"

\* one write resolved and another rejected, and both were logged
C4_Witness ==
    \E v, w \in 1..Len(wire) :
        /\ wire[v].outcome = "ok" /\ wire[w].outcome = "error"
        /\ \E i \in Linked(v) : Entry(i).type = "TX"
        /\ \E i \in Linked(w) : Entry(i).type = "SYS"

\* n as `width` uppercase hexadecimal digits (n below 16^width)
RECURSIVE Pow16(_)
Pow16(k) == IF k = 0 THEN 1 ELSE 16 * Pow16(k - 1)

Rendered(n, width) ==
    [i \in 1..width |-> UpperDigits16[((n \div Pow16(width - i)) % 16) + 1]]

\* a text of hexadecimal digits only, and its value
IsHexText(t) == t # <<>> /\ \A i \in 1..Len(t) : HexVal(t[i]) >= 0

HexNat(t) == DigitsValue([i \in 1..Len(t) |-> HexVal(t[i])])

\* the kind of frame entry i stands for: a TX entry's kind is bit 31 of the id
\* written to the wire
KindOf(i) ==
    IF Entry(i).type = "TX"
    THEN (IF wire[hist[i].cause.w].buffer[4] >= 128 THEN "EXT" ELSE "STD")
    ELSE Entry(i).type

\* C8: every entry's id is canonical for its frame's kind: 3 uppercase hexadecimal
\* digits below 0x800 for a Standard frame, 8 below 0x20000000 for an Extended one,
\* the uppercased text for a System entry; entries of sent frames included.
C8_CanonicalId ==
    \A i \in 1..Len(fullLog) :
        LET id == Entry(i).id
        IN  CASE KindOf(i) = "STD" ->
                     Len(id) = 3 /\ IsHexText(id) /\ id = toUpperCase(id) /\ HexNat(id) < 2048
              [] KindOf(i) = "EXT" ->
                     /\ Len(id) = 8 /\ IsHexText(id) /\ id = toUpperCase(id)
                     /\ id[1] \in {"0", "1"}
              [] OTHER -> id = <<"-", "-", "-", "-">>

\* C9: formatCanId of a Standard or Extended id text is the text's hexadecimal
\* value, 0 when the text is not hexadecimal, masked to 11 or 29 bits and written
\* as 3 or 8 zero-padded uppercase digits.
C9_FormatId ==
    ret.fn = "formatCanId" =>
        LET n == IF IsHexText(arg.idHex) THEN HexNat(arg.idHex) ELSE 0
        IN  ret.text = IF arg.type = "STD" THEN Rendered(n % 2048, 3)
                       ELSE Rendered(n % 536870912, 8)

\* a token that is a byte in hexadecimal: one or two hexadecimal digits
IsHexByte(t) == Len(t) \in 1..2 /\ IsHexText(t)

\* C10: parseHexString splits its input on runs of whitespace; when every token is
\* a hexadecimal byte it returns their values, and when some token is not it fails
\* with the invalid-byte error that names such a token, returning no bytes.
C10_AllOrNothing ==
    ret.fn = "parseHexString" =>
        LET tokens == split(trim(arg.input))
            bad    == {i \in 1..Len(tokens) : ~IsHexByte(tokens[i])}
        IN  IF bad = {}
            THEN /\ ret.result.ok
                 /\ ret.result.bytes = [i \in 1..Len(tokens) |-> FromNat(HexNat(tokens[i]))]
            ELSE /\ ~ret.result.ok
                 /\ ret.result.bytes = <<>>
                 /\ \E i \in bad : ret.result.error = InvalidByteError(tokens[i])

\* what the claim expects of the entry decoded from the encoded frame
Decoded(entry, id, kind, data) ==
    /\ entry.type = kind
    /\ entry.id = IF kind = "STD" THEN Rendered(id % 2048, 3)
                  ELSE Rendered(id % 536870912, 8)
    /\ entry.dlc = Len(data)
    /\ entry.data = join([i \in 1..Len(data) |-> Rendered(data[i], 2)])

\* C3 as stated: for every id, kind and data, the parse of the encoded buffer gives
\* the kind, the id masked to the kind's width, dlc = data.length and the data.
C3_AnyLength ==
    ret.fn = "codec" => Decoded(ret.entry, arg.id, arg.kind, arg.data)

\* C3: for every id, kind and data of at most 255 bytes, the parse of the encoded
\* buffer gives the kind, the id masked to the kind's width, dlc = data.length and
\* the data.
C3_RoundTrip ==
    ret.fn = "codec" /\ Len(arg.data) <= U8Max =>
        Decoded(ret.entry, arg.id, arg.kind, arg.data)

\* an Extended frame with an id above 29 bits and 255 data bytes went through
C3_Witness ==
    /\ ret.fn = "codec"
    /\ arg.kind = "EXT" /\ arg.id = 2147483647 /\ Len(arg.data) = U8Max
    /\ ret.entry.dlc = U8Max

\* the raw id of a report split at bit 31: the kind, and the id below the kind's width
RawKind(report) == IF report[4] >= 128 THEN "EXT" ELSE "STD"

RawMasked(report) ==
    IF report[4] >= 128
    THEN report[1] + 256 * report[2] + 65536 * report[3] + 16777216 * (report[4] % 32)
    ELSE (report[1] + 256 * report[2]) % 2048

\* C11: the decoded entry's type is EXT when bit 31 of the little-endian raw id is
\* set and STD when it is clear, and its id is the raw id masked to 29 or 11 bits
\* (8 or 3 digits): bit 31 and the bits above the kind's width never show.
C11_KindFromBit31 ==
    ret.fn = "decode" =>
        /\ ret.entry.type = RawKind(arg.report)
        /\ ret.entry.id = IF RawKind(arg.report) = "EXT"
                          THEN Rendered(RawMasked(arg.report), 8)
                          ELSE Rendered(RawMasked(arg.report), 3)

\* a raw id with every bit set was decoded: Extended, 29 bits shown
C11_Witness ==
    /\ ret.fn = "decode"
    /\ SubSeq(arg.report, 1, 4) = <<255, 255, 255, 255>>
    /\ ret.entry.type = "EXT"
    /\ ret.entry.id = <<"1", "F", "F", "F", "F", "F", "F", "F">>

\* C12: the parse takes n = min(dlc, L - 5) data bytes, those at offsets 5 .. 5+n-1
\* of the report, so the entry's data depends on no other byte; dlc is the declared one.
C12_ClampedRead ==
    ret.fn = "decode" =>
        LET L == Len(arg.report)
            n == IF arg.report[5] <= L - 5 THEN arg.report[5] ELSE L - 5
            taken == [i \in 1..n |-> Rendered(arg.report[5 + i], 2)]
        IN  /\ ret.entry.dlc = arg.report[5]
            /\ ret.args.dataBytes = taken
            /\ ret.entry.data = join(taken)

\* a report of 5 bytes declaring 8 was parsed, and gave no data bytes
C12_Witness ==
    /\ ret.fn = "decode"
    /\ Len(arg.report) = 5 /\ arg.report[5] = 8
    /\ ret.args.dataBytes = <<>> /\ ret.entry.data = <<>> /\ ret.entry.dlc = 8

\* C13: a step in which transferIn resolves with a status other than ok, or with a
\* report of fewer than 5 bytes, appends no entry, leaves the aggregate, the entry
\* objects and the anchor as they were, and the read loop is still running after it.
C13_ShortReportNoOp ==
    [][((ReadFrame \/ ReadIgnored) /\ (arg'.status # "ok" \/ Len(arg'.report) < 5)) =>
        /\ fullLog' = fullLog
        /\ heap' = heap
        /\ uniqueMap' = uniqueMap
        /\ startTimeMs' = startTimeMs
        /\ hist' = hist
        /\ readers' = readers
        /\ Listening'
    ]_vars

\* a report of 4 bytes arrived with status ok after a frame had been logged
C13_Witness ==
    /\ arg.fn = "transferIn" /\ arg.status = "ok" /\ Len(arg.report) < 5
    /\ Len(fullLog) >= 1 /\ hist[Len(hist)].cause.kind = "rx"
    /\ Listening

\* a step of a send function that got past its device check
SendStep == (SendCanMessage \/ SendNow \/ TimerFires) /\ usbDevice # null

\* C14: a send whose kind is neither Standard nor Extended hands no buffer to
\* transferOut and is reported as an error (a SYS entry is logged for it).
C14_InvalidKind ==
    [][(SendStep /\ arg'.type \notin {"STD", "EXT"}) =>
        /\ wire' = wire
        /\ sends' = sends
        /\ Len(hist') = Len(hist) + 1
        /\ hist'[Len(hist')].entry.type = "SYS"
    ]_vars

\* a data text whose tokens are all hexadecimal bytes
IsByteString(t) == \A tok \in Range(split(trim(t))) : IsHexByte(tok)

\* C20: a send whose id text is not hexadecimal (its data being well formed) is not
\* rejected: one buffer is handed to transferOut, and the id in it is 0.
C20_DegradeId ==
    [][(SendStep /\ ~IsHexText(arg'.idInput) /\ IsByteString(arg'.dataInput)) =>
        /\ Len(wire') = Len(wire) + 1
        /\ LET b == wire'[Len(wire')].buffer
           IN  b[1] = 0 /\ b[2] = 0 /\ b[3] = 0 /\ b[4] % 32 = 0
    ]_vars

\* a step of exportLog
ExportStep == ExportStart \/ ExportPicked \/ ExportWritable \/ ExportWritten \/ ExportClosed

\* C15 as stated: whatever the outcome, a step of exportLog leaves the log, its
\* entry objects and the aggregate as they were.
C15_ExportReadsOnly ==
    [][ExportStep => fullLog' = fullLog /\ heap' = heap /\ uniqueMap' = uniqueMap]_vars

\* C15: a step of exportLog that ends the call in failure (the picker or a write
\* step rejected) appends exactly one SYS entry (id "----", dlc 0) after the entries
\* the log had; every other step of exportLog leaves the log, its entry objects,
\* the aggregate and the anchor as they were.
C15_ExportLogsFailureOnly ==
    [][ExportStep =>
        IF export'.outcome = "failed" /\ export.pc # "idle"
        THEN /\ Len(fullLog') = Len(fullLog) + 1
             /\ SubSeq(fullLog', 1, Len(fullLog)) = fullLog
             /\ heap'[fullLog'[Len(fullLog')]].type = "SYS"
             /\ heap'[fullLog'[Len(fullLog')]].id = <<"-", "-", "-", "-">>
             /\ heap'[fullLog'[Len(fullLog')]].dlc = 0
        ELSE /\ fullLog' = fullLog
             /\ heap' = heap
             /\ uniqueMap' = uniqueMap
             /\ startTimeMs' = startTimeMs
    ]_vars

\* a file was written from a log that holds the line of an earlier, failed export
C15_Witness ==
    /\ export.outcome = "written"
    /\ Len(export.content.entries) >= 2
    /\ \E i \in 1..Len(hist) : hist[i].cause.kind = "export"

\* C16: the entries an export rendered are the log as it stood at one instant: a
\* prefix of the log as it is now, entry by entry.
C16_SnapshotIsPrefix ==
    export.content.fn # "none" =>
        /\ Len(export.content.entries) <= Len(fullLog)
        /\ \A i \in 1..Len(export.content.entries) :
               SixFields(export.content.entries[i]) = SixFields(Entry(i))

\* a CSV field without its quotes
RECURSIVE UndoubleQuotes(_)
UndoubleQuotes(t) ==
    IF t = <<>> THEN <<>>
    ELSE IF Len(t) >= 2 /\ t[1] = "\"" /\ t[2] = "\"" THEN <<"\"">> \o UndoubleQuotes(SubSeq(t, 3, Len(t)))
    ELSE <<Head(t)>> \o UndoubleQuotes(Tail(t))

CsvUnquote(f) == UndoubleQuotes(SubSeq(f, 2, Len(f) - 1))

\* C17: in an exported CSV, every Data column that is not empty parses with
\* parseHexString, and the bytes it returns are those the column shows.
C17_DataColumnParses ==
    export.content.fn = "generateCsv" =>
        \A r \in 2..Len(export.content.text) :
            LET column == CsvUnquote(export.content.text[r][6])
                parsed == parseHexString(column)
            IN  column # <<>> =>
                    /\ parsed.ok
                    /\ join([i \in 1..Len(parsed.bytes) |-> ByteText(parsed.bytes[i])]) = column

\* C18: the CSV an export step generates is the header row followed by one row of 6
\* fields per log entry, oldest first (row i shows entry i); the header alone for an
\* empty log.
C18_CsvRowsInOrder ==
    [][(ExportStep /\ export'.content # export.content /\ export'.content.fn = "generateCsv") =>
        LET text == export'.content.text
        IN  /\ Len(text) = Len(fullLog) + 1
            /\ text[1] = <<"Timestamp", "Offset", "ID", "Type", "DLC", "Data">>
            /\ \A i \in 1..Len(fullLog) :
                   /\ Len(text[i + 1]) = 6
                   /\ CsvUnquote(text[i + 1][3]) = Entry(i).id
                   /\ CsvUnquote(text[i + 1][4]) = <<Entry(i).type>>
                   /\ CsvUnquote(text[i + 1][6]) = Entry(i).data
    ]_vars

\* a CSV of two entries with different ids was written
C18_Witness ==
    /\ export.content.fn = "generateCsv" /\ export.outcome \in {"written", "downloaded"}
    /\ Len(export.content.text) = 3
    /\ export.content.text[2][3] # export.content.text[3][3]

\* the logCanMessage calls made since the unique table was last cleared
SinceClear == SubSeq(hist, arg.cleared + 1, Len(hist))

\* the positions in SinceClear at which a key is seen for the first time
FirstSeen ==
    {j \in 1..Len(SinceClear) :
        \A m \in 1..(j - 1) : PairKey(SinceClear[m].entry) # PairKey(SinceClear[j].entry)}

\* the position at which the r-th distinct key was first seen
NthSeen(r) == CHOOSE j \in FirstSeen : Cardinality({m \in FirstSeen : m <= j}) = r

\* the positions in SinceClear that carry the key first seen at position j
SameKey(j) ==
    {m \in 1..Len(SinceClear) : PairKey(SinceClear[m].entry) = PairKey(SinceClear[j].entry)}

\* the row the table owes the r-th distinct key: its id and type, the timestamp, dlc
\* and data of its latest frame, and the number of its frames
OwedRow(r) ==
    LET ms   == SameKey(NthSeen(r))
        last == SinceClear[CHOOSE m \in ms : \A n \in ms : n <= m].entry
    IN  << DecText(last.timestamp), last.id, <<last.type>>, DecText(last.dlc), last.data,
           DecText(Cardinality(ms)) >>

\* C19: after any sequence of appends and clears the unique table has exactly
\* UNIQUE_TABLE_ROWS rows: row r shows the r-th distinct (id, type) key seen since
\* the last clear, in first-seen order, with its current count, for r up to the
\* number of distinct keys, and every later row is an empty padding row; keys
\* beyond the tenth are not shown and a recurring key stays in its row.
C19_TenRows ==
    ret.fn = "renderUnique" =>
        /\ Len(ret.rows) = UNIQUE_TABLE_ROWS
        /\ \A r \in 1..UNIQUE_TABLE_ROWS :
               ret.rows[r] = IF r <= Cardinality(FirstSeen) THEN OwedRow(r) ELSE PaddingRow

\* more keys than rows after a clear, the first of them having recurred
C19_Witness ==
    /\ ret.fn = "renderUnique" /\ arg.fn = "unique"
    /\ arg.cleared > 0
    /\ Cardinality(FirstSeen) > UNIQUE_TABLE_ROWS
    /\ ret.rows[1][6] = <<"2">>

\* a call of sendCanMessageFromTemplate that returned before its transferOut: no
\* device is set, or the template's data does not parse
ReturnedEarly ==
    (SendNow \/ TimerFires)
        /\ (arg'.fn = "nodevice" \/ (arg'.fn = "send" /\ ~parseHexString(arg'.dataInput).ok))

\* C21: once the transferOut of a sendCanMessageFromTemplate call has settled, resolved
\* or rejected, the call sets exactly one timeout for its template; a call that
\* attempts the write is one that will settle; a call that returns early because no
\* device is set or because the data does not parse sets no timeout and attempts no
\* write.
C21_TemplateReschedule ==
    [][/\ \A s \in sends \ sends' :
              s.tpl # 0 => timers' = [timers EXCEPT ![s.tpl] = @ + 1]
       /\ ((SendNow \/ TimerFires) /\ ~ReturnedEarly) =>
              /\ Len(wire') = Len(wire) + 1
              /\ \E s \in sends' \ sends : s.tpl = arg'.tpl /\ sends' = sends \cup {s}
       /\ ReturnedEarly =>
              /\ sends' = sends /\ wire' = wire
              /\ \A k \in TemplateRows : timers'[k] <= timers[k]]_vars

\* the write of a template send was rejected and its timeout is pending
C21_Witness ==
    /\ arg.fn = "send" /\ arg.tpl = 1
    /\ Len(wire) = 1 /\ wire[1].outcome = "error"
    /\ timers[1] = 1

\* C22: at most one interval timer is active at any time; every handleIntervalChange
\* clears the timer that was active before it, starts one new timer when the value
\* is a positive number, and leaves no timer active when the value is zero, negative
\* or no number.
C22_OneIntervalTimer ==
    [][/\ Cardinality(intervals') <= 1
       /\ HandleIntervalChange =>
              /\ intervals' \cap intervals = {}
              /\ IF ~arg'.ms.nan /\ arg'.ms.n > 0
                 THEN Cardinality(intervals') = 1
                 ELSE intervals' = {}]_vars

\* the period was changed while a timer was active, and the new timer has fired
C22_Witness ==
    /\ intervals = {2}
    /\ arg.fn = "send"
    /\ Len(wire) > 0

\* C23: a press of Space calls sendCanMessage exactly once if the last
\* handleSpacebarToggle event had checked = true and not at all if it had
\* checked = false, however many times the box was checked before.
C23_SpaceSendsOnceIfChecked ==
    [][(Keydown /\ arg'.code = "Space") => dispatch' = IF spaceBox THEN 1 ELSE 0]_vars

\* a step in which a transferIn of a read loop settles
TransferStep == ReadFrame \/ ReadIgnored \/ ReadError

\* C24: when transferIn rejects, exactly one SYS entry with id '----', dlc 0 and
\* the error message, or 'Read Error' when there is none, as data is appended, and
\* the loop ends: one loop fewer is active, and with no loop active no transfer
\* settles and the read path appends nothing.
C24_ReadErrorEndsLoop ==
    [][/\ ReadError =>
              /\ Len(fullLog') = Len(fullLog) + 1
              /\ SubSeq(fullLog', 1, Len(fullLog)) = fullLog
              /\ LET e == heap'[fullLog'[Len(fullLog')]]
                 IN  /\ e.id = <<"-", "-", "-", "-">> /\ e.type = "SYS" /\ e.dlc = 0
                     /\ e.data = IF arg'.message = <<>> THEN <<"Read Error">> ELSE arg'.message
              /\ readers' = readers - 1
       /\ readers = 0 => ~TransferStep]_vars

\* a frame was read, then the transfer failed without a message; no loop is left
C24_Witness ==
    /\ Len(hist) = 2 /\ hist[1].cause.kind = "rx" /\ hist[2].cause.kind = "read"
    /\ heap[fullLog[2]].data = <<"Read Error">>
    /\ readers = 0

\* a call of one of the two send functions while this.usbDevice is null
NoDeviceCall == (SendCanMessage \/ SendNow \/ TimerFires) /\ usbDevice = null

\* C25: a sendCanMessage or sendCanMessageFromTemplate call made while usbDevice
\* is null hands nothing to transferOut, leaves the log, its entries, the anchor
\* and the unique aggregate as they are, and leaves no write pending and no
\* timeout set.
C25_NoDeviceNoOp ==
    [][NoDeviceCall =>
           /\ arg'.fn = "nodevice"
           /\ wire' = wire /\ sends' = sends
           /\ fullLog' = fullLog /\ heap' = heap /\ hist' = hist
           /\ uniqueMap' = uniqueMap /\ startTimeMs' = startTimeMs
           /\ \A k \in TemplateRows : timers'[k] <= timers[k]]_vars

\* Send Now was clicked with no device set, after a connect that failed was logged
C25_Witness ==
    /\ usbDevice = null
    /\ arg.fn = "nodevice" /\ arg.tpl = 1
    /\ Len(fullLog) = 1 /\ Len(uniqueMap) = 1
    /\ wire = <<>>

\* C26: a buffer is handed to transferOut only once a connectDevice call has got
\* through requestDevice, open, the selection of the configuration and
\* claimInterface, which is when the status reads 'Connected'; after a
\* connectDevice call that failed at one of these steps a send writes nothing.
C26_WriteOnlyConnected ==
    [][Len(wire') > Len(wire) => connectionStatus = "Connected"]_vars

\* C27: whatever the connect actions, Connect clicked again while connected
\* included, at most one listenToDevice loop is awaiting a transfer at any time.
C27_SingleReader == readers <= 1

\* C28: whatever the Send Now clicks and the timeouts that fire, every template
\* has at most one timeout of sendCanMessageFromTemplate pending at any time.
C28_OnePendingResend == \A k \in TemplateRows : timers[k] <= 1

\* the counts of the aggregate entries from the i-th on, added up
RECURSIVE SumCounts(_)
SumCounts(i) ==
    IF i > Len(uniqueMap) THEN 0 ELSE heap[uniqueMap[i].ref].count + SumCounts(i + 1)

\* C29: in every reachable state every aggregate entry has a count of at least 1
\* that equals the number of entries with its (id, type) key appended since the
\* aggregate was last cleared (or created), and the counts add up to the number of
\* entries appended since then.
C29_CountsAccount ==
    /\ \A i \in 1..Len(uniqueMap) :
           LET e == heap[uniqueMap[i].ref]
           IN  /\ e.count >= 1
               /\ e.count = Cardinality({m \in 1..Len(SinceClear) :
                                            PairKey(SinceClear[m].entry) = PairKey(e)})
    /\ SumCounts(1) = Len(SinceClear)

\* two entries were appended before the clear; since then one key has been seen
\* three times and another once
C29_Witness ==
    /\ arg.fn = "unique" /\ arg.cleared = 2
    /\ Len(uniqueMap) = 2
    /\ heap[uniqueMap[1].ref].count = 3
    /\ Len(fullLog) = 6

\* a text of spaces only, the empty text included
Blank(t) == \A i \in 1..Len(t) : t[i] = " "

\* C30: a send whose data input is empty or all whitespace hands transferOut a
\* buffer of 5 bytes with dlc 0, and once that write has resolved a TX entry with
\* dlc 0 and empty data is logged for it.
C30_EmptyDataSends ==
    [][/\ (SendStep /\ Blank(arg'.dataInput)) =>
              /\ Len(wire') = Len(wire) + 1
              /\ Len(wire'[Len(wire')].buffer) = 5
              /\ wire'[Len(wire')].buffer[5] = 0
       /\ \A s \in sends \ sends' :
              (Len(wire[s.w].buffer) = 5 /\ wire'[s.w].outcome = "ok") =>
                  LET e == hist'[Len(hist')].entry
                  IN  e.type = "TX" /\ e.dlc = 0 /\ e.data = <<>>]_vars

=============================================================================
